---- MODULE Spec2Model ----
(***************************************************************************)
(* Model of the shift salary calculator (one Python script built on        *)
(* pandas).  A run of main reads one sheet per target month, derives the   *)
(* worked hours, the hourly wage and the pay of every row, concatenates    *)
(* the monthly tables and writes the selected columns to the output file.  *)
(*                                                                         *)
(* Representation                                                          *)
(*   - a cell is <<>> (NaN / NaT / blank) or <<v>>;                        *)
(*   - a DataFrame is [columns: sequence of column names, rows: sequence   *)
(*     of functions from the column names to cells];                       *)
(*   - the Japanese column and employee names of the source are written in *)
(*     ASCII: date, name, clock_in, clock_out, worked_hours, hourly_wage,  *)
(*     pay, source_month, clock_in_dt, clock_out_dt; Tanaka, Suzuki, Sato; *)
(*   - a timestamp is a number of seconds (day * 86400 + second of day);   *)
(*   - worked hours are kept in hundredths of an hour (8.00 h = 800) and   *)
(*     pay in hundredths of a yen (11200.0 = 1120000), so that the         *)
(*     two-decimal rounding of the source is integer arithmetic.           *)
(***************************************************************************)
EXTENDS Integers, Sequences, FiniteSets, TLC

VARIABLES workbook, months, output0, output_file, first_output, run, pc, i,
          df, monthly_dfs, result_df, output_df

vars == <<workbook, months, output0, output_file, first_output, run, pc, i,
          df, monthly_dfs, result_df, output_df>>

(***************************************************************************)
(* Bounds of the model.                                                    *)
(***************************************************************************)
MaxRows == 2

(***************************************************************************)
(* Cells and tables.                                                       *)
(***************************************************************************)
Null == <<>>

Some(v) == <<v>>

EmptyDf == [columns |-> <<>>, rows |-> <<>>]

NoSheet == [exists |-> FALSE, columns |-> <<>>, rows |-> <<>>]

NoFile == [exists |-> FALSE, table |-> EmptyDf]

Range(s) == {s[k] : k \in DOMAIN s}

SeqsUpTo(S, n) == UNION {[1..k -> S] : k \in 0..n}

\* df[c] = vals (one cell per row): the column is replaced in place when it
\* exists and appended as the last column otherwise.
SetCol(d, c, vals) ==
    [columns |-> IF c \in Range(d.columns) THEN d.columns
                 ELSE Append(d.columns, c),
     rows |-> [k \in DOMAIN d.rows |->
                 [x \in DOMAIN d.rows[k] \cup {c} |->
                     IF x = c THEN vals[k] ELSE d.rows[k][x]]]]

\* df.drop(columns = cs)
DropCols(d, cs) ==
    [columns |-> SelectSeq(d.columns, LAMBDA x : x \notin cs),
     rows |-> [k \in DOMAIN d.rows |->
                 [x \in DOMAIN d.rows[k] \ cs |-> d.rows[k][x]]]]

(***************************************************************************)
(* calculate_work_hours                                                    *)
(***************************************************************************)
SecondsPerDay == 86400
SecondsPerHour == 3600
Hundredths == 100

\* str(cell): a blank cell prints as "nan".
AsStr(cell) == IF cell = Null THEN "nan" ELSE cell[1]

\* The time of day pandas reads from the text of a clock-in / clock-out
\* cell, in seconds, or Null when the text is no time (errors = "coerce").
\* A clock value read as datetime.time prints as "HH:MM:SS"; a column of
\* this model holds texts of one time format only, so the result does not
\* depend on whether pandas infers one format for the whole column.
TimeOfDay(s) ==
    CASE s = "00:00:00" -> Some(0)
      [] s = "06:00"    -> Some(21600)
      [] s = "09:00"    -> Some(32400)
      [] s = "09:00:18" -> Some(32418)
      [] s = "17:30"    -> Some(63000)
      [] s = "22:00"    -> Some(79200)
      [] s = "23:59:59" -> Some(86399)
      [] OTHER          -> Null

\* pd.to_datetime(date.astype(str) + " " + cell.astype(str), errors="coerce")
to_datetime(date, cell) ==
    IF date = Null \/ TimeOfDay(AsStr(cell)) = Null THEN Null
    ELSE Some(date[1] * SecondsPerDay + TimeOfDay(AsStr(cell))[1])

\* Variants of overnight: the day is added also when the two are equal; two
\* days are added; nothing is added.
overnight_le(in_dt, out_dt) ==
    IF in_dt # Null /\ out_dt # Null /\ out_dt[1] <= in_dt[1]
    THEN Some(out_dt[1] + SecondsPerDay)
    ELSE out_dt

overnight_twice(in_dt, out_dt) ==
    IF in_dt # Null /\ out_dt # Null /\ out_dt[1] < in_dt[1]
    THEN Some(out_dt[1] + 2 * SecondsPerDay)
    ELSE out_dt

overnight_never(in_dt, out_dt) == out_dt

\* df.loc[out_dt < in_dt, out_dt] += Timedelta(days = 1); a comparison with
\* NaT is false.
overnight(in_dt, out_dt) ==
    IF in_dt # Null /\ out_dt # Null /\ out_dt[1] < in_dt[1]
    THEN Some(out_dt[1] + SecondsPerDay)
    ELSE out_dt

\* The durations of this model, in seconds, that are an exact tie between
\* two hundredths of an hour and whose binary quotient times 100 falls just
\* above, or just below, the tie.
FloatTiesAbove == {32418}

FloatTiesBelow == {30582}

\* numpy's round(2) of secs / 3600, in hundredths: rint(secs / 3600 * 100).
\* rint rounds a tie to the even integer; the float product of a tie is not
\* always the exact tie.
round2(secs) ==
    LET q == (secs * Hundredths) \div SecondsPerHour
        r == (secs * Hundredths) % SecondsPerHour
    IN  IF 2 * r < SecondsPerHour THEN q
        ELSE IF 2 * r > SecondsPerHour THEN q + 1
        ELSE IF secs \in FloatTiesAbove THEN q + 1
        ELSE IF secs \in FloatTiesBelow THEN q
        ELSE IF q % 2 = 0 THEN q ELSE q + 1

\* ((out_dt - in_dt).dt.total_seconds() / 3600).round(2), in hundredths.
work_hours(in_dt, out_dt) ==
    IF in_dt = Null \/ out_dt = Null THEN Null
    ELSE Some(round2(out_dt[1] - in_dt[1]))

calculate_work_hours(d) ==
    LET d1 == SetCol(d, "date", [k \in DOMAIN d.rows |-> d.rows[k]["date"]])
        d2 == SetCol(d1, "clock_in_dt",
                  [k \in DOMAIN d1.rows |->
                      to_datetime(d1.rows[k]["date"], d1.rows[k]["clock_in"])])
        d3 == SetCol(d2, "clock_out_dt",
                  [k \in DOMAIN d2.rows |->
                      to_datetime(d2.rows[k]["date"], d2.rows[k]["clock_out"])])
        d4 == SetCol(d3, "clock_out_dt",
                  [k \in DOMAIN d3.rows |->
                      overnight(d3.rows[k]["clock_in_dt"],
                                d3.rows[k]["clock_out_dt"])])
        d5 == SetCol(d4, "worked_hours",
                  [k \in DOMAIN d4.rows |->
                      work_hours(d4.rows[k]["clock_in_dt"],
                                 d4.rows[k]["clock_out_dt"])])
    IN  DropCols(d5, {"clock_in_dt", "clock_out_dt"})

(***************************************************************************)
(* apply_wage_master, calculate_salary                                     *)
(***************************************************************************)
wage_map == [Tanaka |-> 1400, Suzuki |-> 1300, Sato |-> 1200]

\* Variant of map_wage: a name that is no key gets the lowest wage.
map_wage_default(name) ==
    IF name # Null /\ name[1] \in DOMAIN wage_map
    THEN Some(wage_map[name[1]]) ELSE Some(wage_map["Sato"])

\* Series.map(wage_map): a name that is no key maps to NaN.
map_wage(name) ==
    IF name # Null /\ name[1] \in DOMAIN wage_map
    THEN Some(wage_map[name[1]]) ELSE Null

apply_wage_master(d) ==
    SetCol(d, "hourly_wage",
           [k \in DOMAIN d.rows |-> map_wage(d.rows[k]["name"])])

\* Variants of multiply: null hours count as 0; a null wage counts as 0.
multiply_hours_fillna(hours, wage) ==
    IF wage = Null THEN Null
    ELSE IF hours = Null THEN Some(0) ELSE Some(hours[1] * wage[1])

multiply_wage_fillna(hours, wage) ==
    IF hours = Null THEN Null
    ELSE IF wage = Null THEN Some(0) ELSE Some(hours[1] * wage[1])

\* worked_hours * hourly_wage: NaN when either operand is NaN.
multiply(hours, wage) ==
    IF hours = Null \/ wage = Null THEN Null ELSE Some(hours[1] * wage[1])

calculate_salary(d) ==
    SetCol(d, "pay",
           [k \in DOMAIN d.rows |->
               multiply(d.rows[k]["worked_hours"], d.rows[k]["hourly_wage"])])

(***************************************************************************)
(* load_and_process_months, main                                           *)
(***************************************************************************)
\* Variant of read_excel: a missing sheet reads as an empty table.
read_excel_empty(wb, month) ==
    [ok |-> TRUE,
     df |-> [columns |-> wb[month].columns, rows |-> wb[month].rows]]

\* pd.read_excel(input_path, sheet_name = "<month>月"): raises when the
\* workbook has no such sheet.
read_excel(wb, month) ==
    IF wb[month].exists
    THEN [ok |-> TRUE,
          df |-> [columns |-> wb[month].columns, rows |-> wb[month].rows]]
    ELSE [ok |-> FALSE, df |-> EmptyDf]

stamp_month(d, month) ==
    SetCol(d, "source_month", [k \in DOMAIN d.rows |-> Some(month)])

RECURSIVE UnionColumns(_, _)
\* The columns of the frames in order of first appearance.
UnionColumns(dfs, acc) ==
    IF dfs = <<>> THEN acc
    ELSE UnionColumns(Tail(dfs),
             acc \o SelectSeq(Head(dfs).columns,
                              LAMBDA x : x \notin Range(acc)))

RECURSIVE ConcatRows(_, _)
ConcatRows(dfs, cols) ==
    IF dfs = <<>> THEN <<>>
    ELSE [k \in DOMAIN Head(dfs).rows |->
             [x \in cols |-> IF x \in DOMAIN Head(dfs).rows[k]
                             THEN Head(dfs).rows[k][x] ELSE Null]]
         \o ConcatRows(Tail(dfs), cols)

Reverse(q) == [k \in 1..Len(q) |-> q[Len(q) + 1 - k]]

\* Variant of concat: the last frame comes first.
concat_reversed(dfs) ==
    LET cols == UnionColumns(dfs, <<>>)
    IN  [columns |-> cols, rows |-> ConcatRows(Reverse(dfs), Range(cols))]

\* pd.concat(monthly_dfs, ignore_index = True), for a non-empty list.
concat(dfs) ==
    LET cols == UnionColumns(dfs, <<>>)
    IN  [columns |-> cols, rows |-> ConcatRows(dfs, Range(cols))]

OutputColumns ==
    <<"date", "name", "clock_in", "clock_out",
      "worked_hours", "hourly_wage", "pay", "source_month">>

\* Variant of select_columns: the table is written as it is.
select_all(d, cols) == d

\* result_df[[...]]
select_columns(d, cols) ==
    [columns |-> cols,
     rows |-> [k \in DOMAIN d.rows |-> [x \in Range(cols) |-> d.rows[k][x]]]]

\* Variant of to_excel: the rows are added to those of an existing file.
to_excel_append(old, d) ==
    [exists |-> TRUE,
     table |-> [columns |-> d.columns,
                rows |-> IF old.exists THEN old.table.rows \o d.rows ELSE d.rows]]

\* output_df.to_excel(output_path, index = False): the file is replaced.
to_excel(old, d) == [exists |-> TRUE, table |-> d]

(***************************************************************************)
(* Inputs.                                                                 *)
(***************************************************************************)
\* main asks for the months 1, 2, 3.
LastMonth == 3

AllMonths == 1..LastMonth

InputColumns == <<"date", "name", "clock_in", "clock_out">>

Names == {Some("Tanaka"), Some("Suzuki"), Some("Sato"), Some("Yamada"), Null}

TimeCells == {Some("00:00:00"), Some("06:00"), Some("09:00"), Some("09:00:18"),
              Some("17:30"), Some("22:00"), Some("23:59:59"), Some("abc"), Null}

Dates == {Some(1), Null}

Record(dt, nm, cin, cout) ==
    [date |-> dt, name |-> nm, clock_in |-> cin, clock_out |-> cout]

\* Every attendance record over the cell values above.
Records ==
    {Record(dt, nm, cin, cout) :
        dt \in Dates, nm \in Names, cin \in TimeCells, cout \in TimeCells}

RunNames == <<"Tanaka", "Yamada", "Suzuki", "Sato">>

\* Row j of the sheet of month m in the multi-month runs: the rows of a
\* workbook differ from each other, day shifts alternate with night shifts
\* and some clock-in cells are no time.
RunRecord(m, j) ==
    Record(Some(m), Some(RunNames[((j - 1) % Len(RunNames)) + 1]),
           IF (m + j) % 3 = 0 THEN Some("abc")
           ELSE IF j % 2 = 1 THEN Some("09:00") ELSE Some("22:00"),
           IF j % 2 = 1 THEN Some("17:30") ELSE Some("06:00"))

WithMemo(r) ==
    [x \in DOMAIN r \cup {"memo"} |-> IF x = "memo" THEN Some("x") ELSE r[x]]

\* A sheet of the required columns, with or without one more column.
Sheet(rows, memo) ==
    IF memo
    THEN [exists |-> TRUE, columns |-> Append(InputColumns, "memo"),
          rows |-> [k \in DOMAIN rows |-> WithMemo(rows[k])]]
    ELSE [exists |-> TRUE, columns |-> InputColumns, rows |-> rows]

RunSheets(m) ==
    {NoSheet} \cup
    {Sheet([j \in 1..n |-> RunRecord(m, j)], memo) :
        n \in 0..MaxRows, memo \in BOOLEAN}

\* The month lists without repetition, the empty one included.
MonthLists ==
    {ms \in SeqsUpTo(AllMonths, LastMonth) :
        \A a, b \in DOMAIN ms : a # b => ms[a] # ms[b]}

StaleFile == [exists |-> TRUE, table |-> [columns |-> <<"stale">>, rows |-> <<>>]]

\* A workbook of one sheet holding one record; the month is asked for once
\* or twice.
InitRecord ==
    /\ \E r \in Records :
          workbook = [m \in AllMonths |->
                         IF m = 1 THEN Sheet(<<r>>, FALSE) ELSE NoSheet]
    /\ months \in {<<1>>, <<1, 1>>}
    /\ output0 = NoFile

\* A workbook of up to three sheets, any list of distinct months.
InitRun ==
    /\ workbook \in {w \in [AllMonths -> UNION {RunSheets(m) : m \in AllMonths}] :
                       \A m \in AllMonths : w[m] \in RunSheets(m)}
    /\ months \in MonthLists
    /\ output0 \in {NoFile, StaleFile}

Init ==
    /\ InitRecord \/ InitRun
    /\ output_file = output0
    /\ first_output = NoFile
    /\ run = 1
    /\ pc = "start"
    /\ i = 1
    /\ df = EmptyDf
    /\ monthly_dfs = <<>>
    /\ result_df = EmptyDf
    /\ output_df = EmptyDf

(***************************************************************************)
(* Actions: the steps of main and of load_and_process_months.              *)
(***************************************************************************)
inputs == <<workbook, months, output0>>

\* main calls load_and_process_months: monthly_dfs = []
Start ==
    /\ pc = "start"
    /\ monthly_dfs' = <<>>
    /\ i' = 1
    /\ pc' = IF months = <<>> THEN "concat" ELSE "read"
    /\ UNCHANGED <<inputs, output_file, first_output, run, df, result_df, output_df>>

\* df = pd.read_excel(...); the exception of a missing sheet ends main.
ReadExcel ==
    /\ pc = "read"
    /\ LET res == read_excel(workbook, months[i])
       IN  /\ df' = res.df
           /\ pc' = IF res.ok THEN "hours" ELSE "failed"
    /\ UNCHANGED <<inputs, output_file, first_output, run, i, monthly_dfs,
                   result_df, output_df>>

CalculateWorkHours ==
    /\ pc = "hours"
    /\ df' = calculate_work_hours(df)
    /\ pc' = "wage"
    /\ UNCHANGED <<inputs, output_file, first_output, run, i, monthly_dfs,
                   result_df, output_df>>

ApplyWageMaster ==
    /\ pc = "wage"
    /\ df' = apply_wage_master(df)
    /\ pc' = "salary"
    /\ UNCHANGED <<inputs, output_file, first_output, run, i, monthly_dfs,
                   result_df, output_df>>

CalculateSalary ==
    /\ pc = "salary"
    /\ df' = calculate_salary(df)
    /\ pc' = "stamp"
    /\ UNCHANGED <<inputs, output_file, first_output, run, i, monthly_dfs,
                   result_df, output_df>>

\* df["source_month"] = month; monthly_dfs.append(df); next month.
StampAndAppend ==
    /\ pc = "stamp"
    /\ df' = stamp_month(df, months[i])
    /\ monthly_dfs' = Append(monthly_dfs, df')
    /\ i' = i + 1
    /\ pc' = IF i < Len(months) THEN "read" ELSE "concat"
    /\ UNCHANGED <<inputs, output_file, first_output, run, result_df, output_df>>

\* return pd.concat(monthly_dfs, ignore_index = True): raises on an empty list.
Concat ==
    /\ pc = "concat"
    /\ IF monthly_dfs = <<>>
       THEN pc' = "failed" /\ UNCHANGED result_df
       ELSE pc' = "select" /\ result_df' = concat(monthly_dfs)
    /\ UNCHANGED <<inputs, output_file, first_output, run, i, df, monthly_dfs,
                   output_df>>

SelectColumns ==
    /\ pc = "select"
    /\ output_df' = select_columns(result_df, OutputColumns)
    /\ pc' = "write"
    /\ UNCHANGED <<inputs, output_file, first_output, run, i, df, monthly_dfs,
                   result_df>>

ToExcel ==
    /\ pc = "write"
    /\ output_file' = to_excel(output_file, output_df)
    /\ pc' = "done"
    /\ UNCHANGED <<inputs, first_output, run, i, df, monthly_dfs, result_df,
                   output_df>>

\* The script is run a second time on the same workbook and month list.
Rerun ==
    /\ pc \in {"done", "failed"}
    /\ run = 1
    /\ run' = 2
    /\ first_output' = output_file
    /\ pc' = "start"
    /\ i' = 1
    /\ df' = EmptyDf
    /\ monthly_dfs' = <<>>
    /\ result_df' = EmptyDf
    /\ output_df' = EmptyDf
    /\ UNCHANGED <<inputs, output_file>>

Next ==
    \/ Start
    \/ ReadExcel
    \/ CalculateWorkHours
    \/ ApplyWageMaster
    \/ CalculateSalary
    \/ StampAndAppend
    \/ Concat
    \/ SelectColumns
    \/ ToExcel
    \/ Rerun

Spec == Init /\ [][Next]_vars

(***************************************************************************)
(* Properties.                                                             *)
(***************************************************************************)
InSec(r) == TimeOfDay(AsStr(r["clock_in"]))

OutSec(r) == TimeOfDay(AsStr(r["clock_out"]))

\* Both timestamps of the record parse.
Parsed(r) == r["date"] # Null /\ InSec(r) # Null /\ OutSec(r) # Null

\* h hundredths of an hour is secs seconds rounded to two decimals of an hour.
IsRounded(h, secs) ==
    /\ 2 * (h * SecondsPerHour - secs * Hundredths) <= SecondsPerHour
    /\ 2 * (secs * Hundredths - h * SecondsPerHour) <= SecondsPerHour

MissingRequested == \E t \in DOMAIN months : ~workbook[months[t]].exists

HasHours == pc \in {"wage", "salary", "stamp"}

HasWage == pc \in {"salary", "stamp"}

HasPay == pc = "stamp"

Written == pc = "done"

OutRows == output_file.table.rows

C2_MissingSheetNoOutput ==
    MissingRequested =>
        /\ output_file = output0
        /\ pc \notin {"select", "write", "done"}

C2_Witness ==
    /\ pc = "failed"
    /\ run = 2
    /\ Len(months) = 3
    /\ workbook[months[1]].exists
    /\ workbook[months[2]].exists
    /\ ~workbook[months[3]].exists
    /\ output0 = StaleFile
    /\ output_file = StaleFile

\* C3: a record whose timestamps parse and whose clock-out is not before
\* its clock-in has worked hours (clock-out - clock-in) / 3600 rounded to
\* two decimals: no day is added, also when the two are equal.
C3_SameDayHours ==
    HasHours => \A k \in DOMAIN df.rows :
        LET r == df.rows[k]
        IN  (Parsed(r) /\ OutSec(r)[1] >= InSec(r)[1]) =>
                /\ r["worked_hours"] # Null
                /\ IsRounded(r["worked_hours"][1], OutSec(r)[1] - InSec(r)[1])

C3_Witness ==
    /\ HasHours
    /\ \E k \in DOMAIN df.rows :
          /\ df.rows[k]["date"] # Null
          /\ df.rows[k]["clock_in"] = Some("09:00")
          /\ df.rows[k]["clock_out"] = Some("09:00")
          /\ df.rows[k]["worked_hours"] = Some(0)

\* C4: a record whose clock-out is before its clock-in gets 24 hours added
\* to clock-out once (22:00 to 06:00 is 8.00 hours); a record whose
\* clock-out is not before its clock-in gets nothing added, and a record
\* with a null timestamp has null worked hours.
C4_OvernightOnce ==
    HasHours => \A k \in DOMAIN df.rows :
        LET r == df.rows[k]
            h == r["worked_hours"]
        IN  /\ (Parsed(r) /\ OutSec(r)[1] < InSec(r)[1]) =>
                  /\ h # Null
                  /\ IsRounded(h[1], OutSec(r)[1] + SecondsPerDay - InSec(r)[1])
            /\ (Parsed(r) /\ r["clock_in"] = Some("22:00")
                          /\ r["clock_out"] = Some("06:00")) => h = Some(800)
            /\ (Parsed(r) /\ OutSec(r)[1] >= InSec(r)[1]) =>
                  /\ h # Null
                  /\ 2 * (h[1] * SecondsPerHour) <=
                        2 * (OutSec(r)[1] - InSec(r)[1]) * Hundredths + SecondsPerHour
            /\ ~Parsed(r) => h = Null

C4_Witness ==
    /\ HasHours
    /\ \E k \in DOMAIN df.rows :
          /\ df.rows[k]["clock_in"] = Some("22:00")
          /\ df.rows[k]["clock_out"] = Some("06:00")
          /\ df.rows[k]["worked_hours"] = Some(800)

\* C5 as stated: worked hours are null, or at least 0 and below 24.
C5_Below24 ==
    HasHours => \A k \in DOMAIN df.rows :
        \/ df.rows[k]["worked_hours"] = Null
        \/ /\ df.rows[k]["worked_hours"][1] >= 0
           /\ df.rows[k]["worked_hours"][1] < 24 * Hundredths

\* C5 amended: worked hours are null, or at least 0 and at most 24.00 (a
\* duration of 23:59:59 rounds to 24.00).
C5_NonNegative ==
    HasHours => \A k \in DOMAIN df.rows :
        \/ df.rows[k]["worked_hours"] = Null
        \/ /\ df.rows[k]["worked_hours"][1] >= 0
           /\ df.rows[k]["worked_hours"][1] <= 24 * Hundredths

C5_Witness ==
    /\ HasHours
    /\ \E k \in DOMAIN df.rows :
          /\ df.rows[k]["clock_in"] = Some("00:00:00")
          /\ df.rows[k]["clock_out"] = Some("23:59:59")
          /\ df.rows[k]["worked_hours"] = Some(24 * Hundredths)

\* C6: the hourly wage of a record is 1400 for Tanaka, 1300 for Suzuki,
\* 1200 for Sato and null for every other name; an unknown name does not
\* make the run fail.
C6_WageTable ==
    /\ HasWage => \A k \in DOMAIN df.rows :
          LET r == df.rows[k]
          IN  r["hourly_wage"] =
                 CASE r["name"] = Some("Tanaka") -> Some(1400)
                   [] r["name"] = Some("Suzuki") -> Some(1300)
                   [] r["name"] = Some("Sato")   -> Some(1200)
                   [] OTHER                      -> Null
    /\ pc = "failed" => MissingRequested \/ months = <<>>

C6_Witness ==
    /\ Written
    /\ \E k \in DOMAIN OutRows :
          OutRows[k]["name"] = Some("Yamada") /\ OutRows[k]["hourly_wage"] = Null
    /\ \E k \in DOMAIN OutRows :
          OutRows[k]["name"] = Some("Tanaka") /\ OutRows[k]["hourly_wage"] = Some(1400)

\* C7: pay is worked hours times hourly wage, unrounded, when both are not
\* null (8.00 hours at 1400 is 11200.0), and null when either is null.
C7_Pay ==
    HasPay => \A k \in DOMAIN df.rows :
        LET r == df.rows[k]
        IN  /\ (r["worked_hours"] # Null /\ r["hourly_wage"] # Null) =>
                  r["pay"] = Some(r["worked_hours"][1] * r["hourly_wage"][1])
            /\ (r["worked_hours"] = Null \/ r["hourly_wage"] = Null) =>
                  r["pay"] = Null
            /\ (r["worked_hours"] = Some(800) /\ r["hourly_wage"] = Some(1400)) =>
                  r["pay"] = Some(1120000)

C7_Witness ==
    /\ HasPay
    /\ \E k \in DOMAIN df.rows :
          /\ df.rows[k]["worked_hours"] = Some(800)
          /\ df.rows[k]["hourly_wage"] = Some(1400)
          /\ df.rows[k]["pay"] = Some(1120000)

RECURSIVE RowsBefore(_)
\* The number of rows of the sheets of the months requested before the t-th.
RowsBefore(t) ==
    IF t <= 1 THEN 0
    ELSE RowsBefore(t - 1) + Len(workbook[months[t - 1]].rows)

\* C8: the table returned by load_and_process_months holds the rows of the
\* requested months group after group in the order of the request, in the
\* order of the sheet inside a group, each stamped with the month of its
\* sheet, and no other row.
C8_RequestOrder ==
    pc \in {"select", "write", "done"} =>
        /\ Len(result_df.rows) = RowsBefore(Len(months) + 1)
        /\ \A t \in DOMAIN months :
              \A k \in DOMAIN workbook[months[t]].rows :
                 LET r == result_df.rows[RowsBefore(t) + k]
                     s == workbook[months[t]].rows[k]
                 IN  /\ r["source_month"] = Some(months[t])
                     /\ \A c \in Range(InputColumns) : r[c] = s[c]

C8_Witness ==
    /\ pc = "done"
    /\ months = <<2, 1, 3>>
    /\ \A m \in AllMonths : Len(workbook[m].rows) = 2
    /\ result_df.rows[1]["source_month"] = Some(2)
    /\ result_df.rows[3]["source_month"] = Some(1)
    /\ result_df.rows[4]["name"] = Some("Yamada")

\* C9: the second run on the same workbook and month list leaves the
\* output file with the content the first run wrote.
C9_SecondRunSameOutput ==
    (run = 2 /\ pc = "done") => output_file = first_output

C9_Witness ==
    /\ run = 2
    /\ pc = "done"
    /\ output0 = StaleFile
    /\ first_output # StaleFile
    /\ Len(OutRows) >= 2

\* C10: the written table has exactly the columns date, name, clock_in,
\* clock_out, worked_hours, hourly_wage, pay, source_month, in this order.
C10_OutputColumns ==
    Written =>
        /\ output_file.table.columns =
              <<"date", "name", "clock_in", "clock_out",
                "worked_hours", "hourly_wage", "pay", "source_month">>
        /\ \A k \in DOMAIN OutRows :
              DOMAIN OutRows[k] =
                 {"date", "name", "clock_in", "clock_out",
                  "worked_hours", "hourly_wage", "pay", "source_month"}

C10_Witness ==
    /\ Written
    /\ "memo" \in Range(result_df.columns)
    /\ Len(OutRows) >= 1

====
